---- MODULE Spec2Model ----
(***************************************************************************)
(* Model of the panic-recovery HTTP middleware (package recovery).         *)
(*                                                                         *)
(* Recover(options...) builds a Config from NewConfig() and the options,   *)
(* and returns a wrapper whose handler runs the inner handler under a      *)
(* deferred function that recovers a panic, builds a message and a stack   *)
(* trace, and calls Config.ErrHandler.                                     *)
(*                                                                         *)
(* Text is kept run-length encoded: a text is a sequence of tokens, a      *)
(* token being a newline (1 byte), a run of n non-newline bytes of stack   *)
(* line number i, or a literal string s.  The byte arithmetic of           *)
(* runtime.Stack and strings.Split is done on that encoding, so the real   *)
(* MinimumStackSize of 4096 bytes is used.                                 *)
(***************************************************************************)
EXTENDS Integers, Sequences, FiniteSets, TLC

VARIABLES
    cfg,        \* c *Config, shared by every request of the wrapper
    options,    \* the options applied to c so far, in order
    installed,  \* Recover(...) has returned the wrapper
    panicnil,   \* the runtime's setting: recover() yields nil for panic(nil)
    pc,         \* per request: position of the outer handler
    panicking,  \* per request: a panic escaped h.ServeHTTP
    val,        \* per request: the value the inner handler panicked with
    raw,        \* per request: the goroutine's stack text at capture time
    w,          \* per request: its http.ResponseWriter
    calls,      \* per request: the calls made to c.ErrHandler
    logs        \* per logger: the records written to it

vars == <<cfg, options, installed, panicnil, pc, panicking, val, raw, w, calls, logs>>

----------------------------------------------------------------------------
(* Bounds *)

MaxOptions == 3       \* options passed to one Recover call
MaxInnerOps == 2      \* response-writer calls of the inner handler
MaxLines == 4         \* lines of a goroutine stack text
NumConcurrent == 2    \* concurrent requests through one wrapper

(* Program constants *)

MinimumStackSize == 4096
StatusInternalServerError == 500
StatusOK == 200

----------------------------------------------------------------------------
(* Text *)

NL == [t |-> "nl", s |-> "\n", i |-> 0, n |-> 1]
Run(i, n) == [t |-> "run", s |-> "", i |-> i, n |-> n]
Str(s) == [t |-> "str", s |-> s, i |-> 0, n |-> Len(s)]

RECURSIVE Bytes(_)
Bytes(text) == IF text = <<>> THEN 0 ELSE Head(text).n + Bytes(Tail(text))

\* A stack text of Len(lens) lines, line k having lens[k] bytes and a
\* terminating newline.
StackText(lens) ==
    [j \in 1..(2 * Len(lens)) |->
        IF j % 2 = 1 THEN Run((j + 1) \div 2, lens[(j + 1) \div 2]) ELSE NL]

LineLens == {40, 3000}
StackTexts ==
    {StackText(lens) : lens \in UNION {[1..k -> LineLens] : k \in 0..MaxLines}}

\* buf[:runtime.Stack(buf, false)] with len(buf) = size: the first size
\* bytes of the stack text.
RECURSIVE Stack(_, _)
Stack(text, size) ==
    IF text = <<>> \/ size <= 0 THEN <<>>
    ELSE IF Head(text).n <= size
         THEN <<Head(text)>> \o Stack(Tail(text), size - Head(text).n)
         ELSE <<[Head(text) EXCEPT !.n = size]>>

FirstNL(text) ==
    IF \E j \in 1..Len(text) : text[j].t = "nl"
    THEN CHOOSE j \in 1..Len(text) :
            /\ text[j].t = "nl"
            /\ \A k \in 1..(j - 1) : text[k].t # "nl"
    ELSE 0

\* strings.Split(text, "\n"): the pieces between newlines; a text without
\* newline (the empty text included) is one piece.
RECURSIVE Split(_)
Split(text) ==
    IF FirstNL(text) = 0 THEN <<text>>
    ELSE <<SubSeq(text, 1, FirstNL(text) - 1)>>
            \o Split(SubSeq(text, FirstNL(text) + 1, Len(text)))

\* strings.Join(lines, "\n")
RECURSIVE Join(_)
Join(lines) ==
    IF lines = <<>> THEN <<>>
    ELSE IF Len(lines) = 1 THEN lines[1]
    ELSE lines[1] \o <<NL>> \o Join(Tail(lines))

----------------------------------------------------------------------------
(* Config and options *)

Loggers == {"stderr", "buf"}
Handlers == {"DefaultErrorHandler", "JSONErrorHandler", "PanickingErrorHandler"}

NewConfig ==
    [ContentType    |-> "application/json",
     ResponseStatus |-> StatusInternalServerError,
     StackSize      |-> MinimumStackSize,
     Logger         |-> "stderr",
     ErrHandler     |-> "DefaultErrorHandler"]

ContentTypeFirstWins(c, v) ==
    IF c.ContentType = "application/json" THEN [c EXCEPT !.ContentType = v] ELSE c
ContentType(c, v) == [c EXCEPT !.ContentType = v]

ResponseStatus(c, v) == [c EXCEPT !.ResponseStatus = v]

StackSizeUnchecked(c, v) == [c EXCEPT !.StackSize = v]
StackSize(c, v) == IF v <= MinimumStackSize THEN c ELSE [c EXCEPT !.StackSize = v]

Logger(c, v) == [c EXCEPT !.Logger = v]

ErrorHandler(c, v) == [c EXCEPT !.ErrHandler = v]

StackSizeArgs == {0 - 1, 1, MinimumStackSize - 1, MinimumStackSize,
                  MinimumStackSize + 1, 2 * MinimumStackSize}

Options ==
    {[name |-> "ContentType", str |-> v, int |-> 0] : v \in {"application/xml", "text/plain"}}
    \cup {[name |-> "ResponseStatus", str |-> "", int |-> v] : v \in {StatusOK, 503}}
    \cup {[name |-> "StackSize", str |-> "", int |-> v] : v \in StackSizeArgs}
    \cup {[name |-> "Logger", str |-> v, int |-> 0] : v \in {"buf"}}
    \cup {[name |-> "ErrorHandler", str |-> v, int |-> 0] : v \in Handlers}

\* v(c) for one option v
Apply(c, o) ==
    CASE o.name = "ContentType"    -> ContentType(c, o.str)
      [] o.name = "ResponseStatus" -> ResponseStatus(c, o.int)
      [] o.name = "StackSize"      -> StackSize(c, o.int)
      [] o.name = "Logger"         -> Logger(c, o.str)
      [] o.name = "ErrorHandler"   -> ErrorHandler(c, o.str)

\* for _, v := range options { v(c) }
RECURSIVE ApplyAll(_, _)
ApplyAll(c, os) == IF os = <<>> THEN c ELSE ApplyAll(Apply(c, Head(os)), Tail(os))

----------------------------------------------------------------------------
(* http.ResponseWriter *)

NewWriter ==
    [header |-> "", wroteHeader |-> FALSE, status |-> 0, sent |-> "",
     body |-> <<>>, events |-> <<>>]

\* w.Header().Set("Content-Type", ct)
HeaderSet(wr, ct) == [wr EXCEPT !.header = ct, !.events = Append(@, "Header.Set")]

\* w.WriteHeader(code): the first call sends the status line and the headers
\* set so far; a later call sends nothing.
WriteHeader(wr, code) ==
    IF wr.wroteHeader
    THEN [wr EXCEPT !.events = Append(@, "WriteHeader")]
    ELSE [wr EXCEPT !.wroteHeader = TRUE, !.status = code, !.sent = wr.header,
                    !.events = Append(@, "WriteHeader")]

\* w.Write(b): sends the status line 200 first when none was sent.
Write(wr, b) ==
    LET w1 == IF wr.wroteHeader THEN wr ELSE WriteHeader(wr, StatusOK)
    IN  [w1 EXCEPT !.body = @ \o b, !.events = Append(@, "Write")]

\* c.Logger.Printf: one record per call, newline-terminated.
Printf(l, logger, text) ==
    [l EXCEPT ![logger] =
        Append(@, IF text # <<>> /\ text[Len(text)].t = "nl"
                  THEN text ELSE text \o <<NL>>)]

----------------------------------------------------------------------------
(* Error handlers.  Each yields the state it leaves behind: the config it  *)
(* was handed by pointer, the response writer, the loggers, and whether it *)
(* panicked.                                                               *)

DefaultErrorHandlerMutatingConfig(c, wr, l, msg, stack) ==
    [c        |-> [c EXCEPT !.ResponseStatus = StatusOK, !.ContentType = "text/html"],
     w        |-> WriteHeader(HeaderSet(wr, c.ContentType), c.ResponseStatus),
     logs     |-> Printf(l, c.Logger, <<Str(msg), NL>> \o Join(stack)),
     panicked |-> FALSE]
DefaultErrorHandler(c, wr, l, msg, stack) ==
    [c        |-> c,
     w        |-> WriteHeader(HeaderSet(wr, c.ContentType), c.ResponseStatus),
     logs     |-> Printf(l, c.Logger, <<Str(msg), NL>> \o Join(stack)),
     panicked |-> FALSE]

\* The handler of TestRecoverMiddlewareWithCustomErrorHandler: status and
\* content type from the config, a JSON body, nothing logged.
JSONErrorHandler(c, wr, l, msg, stack) ==
    [c        |-> c,
     w        |-> Write(WriteHeader(HeaderSet(wr, c.ContentType), c.ResponseStatus),
                        <<Str("{\"error\":\""), Str(msg), Str("\\n")>>
                            \o Join(stack) \o <<Str("\"}")>>),
     logs     |-> l,
     panicked |-> FALSE]

\* c.ErrHandler(c, w, msg, stack)
ErrHandler(c, wr, l, msg, stack) ==
    CASE c.ErrHandler = "DefaultErrorHandler" -> DefaultErrorHandler(c, wr, l, msg, stack)
      [] c.ErrHandler = "JSONErrorHandler"    -> JSONErrorHandler(c, wr, l, msg, stack)
      [] c.ErrHandler = "PanickingErrorHandler" ->
            [c |-> c, w |-> wr, logs |-> l, panicked |-> TRUE]

----------------------------------------------------------------------------
(* The deferred function of the outer handler *)

Nil == [kind |-> "nil", s |-> ""]
PanicNilError == [kind |-> "error", s |-> "panic called with nil argument"]

PanicValues ==
    {[kind |-> "string", s |-> "!!!"], [kind |-> "string", s |-> "aloha"],
     [kind |-> "error", s |-> "EOF"], [kind |-> "other", s |-> "42"], Nil}

\* recover(): nil when the goroutine is not panicking; the panic value
\* otherwise, where panic(nil) yields nil or a *runtime.PanicNilError
\* depending on the runtime (GODEBUG panicnil).
Recovered(isPanicking, v, pnil) ==
    IF ~isPanicking THEN Nil
    ELSE IF v = Nil THEN (IF pnil THEN Nil ELSE PanicNilError)
    ELSE v

AlwaysDispatch(v) == TRUE
ShouldDispatch(v) == v # Nil

MessageErrorAsUnknown(v) ==
    CASE v.kind = "string" -> "panic: " \o v.s
      [] OTHER             -> "unknown panic"
Message(v) ==
    CASE v.kind = "string" -> "panic: " \o v.s
      [] v.kind = "error"  -> "panic: " \o v.s
      [] OTHER             -> "unknown panic"

TrimOffByOne(stack) == IF Len(stack) >= 3 THEN SubSeq(stack, 4, Len(stack)) ELSE stack
Trim(stack) == IF Len(stack) > 3 THEN SubSeq(stack, 4, Len(stack)) ELSE stack

\* The trace handed to c.ErrHandler.
Trace(text, size) == Trim(Split(Stack(text, size)))

\* How the outer handler ends once the deferred function is over: a panic
\* raised by c.ErrHandler is not recovered again.
OutcomeRecoveringAll(handlerPanicked) == "returned"
Outcome(handlerPanicked) == IF handlerPanicked THEN "propagated" ELSE "returned"

----------------------------------------------------------------------------
(* Building the wrapper *)

ApplyOption(o) ==
    /\ ~installed
    /\ Len(options) < MaxOptions
    /\ cfg' = Apply(cfg, o)
    /\ options' = Append(options, o)
    /\ UNCHANGED <<installed, panicnil, pc, panicking, val, raw, w, calls, logs>>

Install ==
    /\ ~installed
    /\ installed' = TRUE
    /\ UNCHANGED <<cfg, options, panicnil, pc, panicking, val, raw, w, calls, logs>>

----------------------------------------------------------------------------
(* One request through the outer handler *)

Requests == 1..NumConcurrent

Arrive(r) ==
    /\ installed
    /\ pc[r] = "idle"
    /\ pc' = [pc EXCEPT ![r] = "inner"]
    /\ UNCHANGED <<cfg, options, installed, panicnil, panicking, val, raw, w, calls, logs>>

\* The inner handler's own response writing (it keeps the discipline: no
\* header or status once the status line is out).
InnerSetHeader(r) ==
    /\ pc[r] = "inner"
    /\ Len(w[r].events) < MaxInnerOps
    /\ ~w[r].wroteHeader
    /\ w' = [w EXCEPT ![r] = HeaderSet(@, "text/plain")]
    /\ UNCHANGED <<cfg, options, installed, panicnil, pc, panicking, val, raw, calls, logs>>

InnerWriteHeader(r) ==
    /\ pc[r] = "inner"
    /\ Len(w[r].events) < MaxInnerOps
    /\ ~w[r].wroteHeader
    /\ \E code \in {StatusOK, 404} : w' = [w EXCEPT ![r] = WriteHeader(@, code)]
    /\ UNCHANGED <<cfg, options, installed, panicnil, pc, panicking, val, raw, calls, logs>>

InnerWrite(r) ==
    /\ pc[r] = "inner"
    /\ Len(w[r].events) < MaxInnerOps
    /\ w' = [w EXCEPT ![r] = Write(@, <<Str("hello")>>)]
    /\ UNCHANGED <<cfg, options, installed, panicnil, pc, panicking, val, raw, calls, logs>>

InnerReturn(r) ==
    /\ pc[r] = "inner"
    /\ pc' = [pc EXCEPT ![r] = "deferred"]
    /\ UNCHANGED <<cfg, options, installed, panicnil, panicking, val, raw, w, calls, logs>>

InnerPanic(r, values) ==
    /\ pc[r] = "inner"
    /\ \E v \in values : val' = [val EXCEPT ![r] = v]
    /\ panicking' = [panicking EXCEPT ![r] = TRUE]
    /\ pc' = [pc EXCEPT ![r] = "deferred"]
    /\ UNCHANGED <<cfg, options, installed, panicnil, raw, w, calls, logs>>

\* defer func() { if v := recover(); v != nil { ... c.ErrHandler(...) } }()
Deferred(r, texts) ==
    /\ pc[r] = "deferred"
    /\ LET v == Recovered(panicking[r], val[r], panicnil)
       IN IF ShouldDispatch(v)
          THEN \E text \in texts :
                 LET msg   == Message(v)
                     stack == Trace(text, cfg.StackSize)
                     out   == ErrHandler(cfg, w[r], logs, msg, stack)
                 IN /\ raw' = [raw EXCEPT ![r] = text]
                    /\ calls' = [calls EXCEPT ![r] =
                                    Append(@, [msg |-> msg, stack |-> stack, w |-> r])]
                    /\ cfg' = out.c
                    /\ w' = [w EXCEPT ![r] = out.w]
                    /\ logs' = out.logs
                    /\ pc' = [pc EXCEPT ![r] = Outcome(out.panicked)]
          ELSE /\ pc' = [pc EXCEPT ![r] = "returned"]
               /\ UNCHANGED <<cfg, raw, w, calls, logs>>
    /\ UNCHANGED <<options, installed, panicnil, panicking, val>>

----------------------------------------------------------------------------
(* Specifications *)

NoRequests ==
    /\ pc = [r \in Requests |-> "idle"]
    /\ panicking = [r \in Requests |-> FALSE]
    /\ val = [r \in Requests |-> Nil]
    /\ raw = [r \in Requests |-> <<>>]
    /\ w = [r \in Requests |-> NewWriter]
    /\ calls = [r \in Requests |-> <<>>]
    /\ logs = [l \in Loggers |-> <<>>]

\* Recover(options...) from its first statement.
InitConfig ==
    /\ cfg = NewConfig
    /\ options = <<>>
    /\ installed = FALSE
    /\ panicnil \in BOOLEAN
    /\ NoRequests

NextConfig ==
    \/ \E o \in Options : ApplyOption(o)
    \/ Install

SpecConfig == InitConfig /\ [][NextConfig]_vars

\* The option lists of the tests, and two more.
OptionLists ==
    {<<>>,
     <<[name |-> "ContentType", str |-> "application/xml", int |-> 0],
       [name |-> "ResponseStatus", str |-> "", int |-> StatusOK],
       [name |-> "Logger", str |-> "buf", int |-> 0],
       [name |-> "StackSize", str |-> "", int |-> 1]>>,
     <<[name |-> "ErrorHandler", str |-> "JSONErrorHandler", int |-> 0]>>,
     <<[name |-> "ErrorHandler", str |-> "PanickingErrorHandler", int |-> 0]>>,
     <<[name |-> "StackSize", str |-> "", int |-> 2 * MinimumStackSize]>>}

\* One request through a wrapper built from one of the option lists.
Init ==
    /\ options \in OptionLists
    /\ cfg = ApplyAll(NewConfig, options)
    /\ installed = TRUE
    /\ panicnil \in BOOLEAN
    /\ NoRequests

Request(r, values, texts) ==
    \/ Arrive(r)
    \/ InnerSetHeader(r)
    \/ InnerWriteHeader(r)
    \/ InnerWrite(r)
    \/ InnerReturn(r)
    \/ InnerPanic(r, values)
    \/ Deferred(r, texts)

Next == Request(1, PanicValues, StackTexts)

Spec == Init /\ [][Next]_vars

\* Concurrent requests through a wrapper with the default error handler.
ConcOptionLists == {os \in OptionLists : Len(os) # 1}
ConcValues == {[kind |-> "string", s |-> "aloha"], [kind |-> "error", s |-> "EOF"], Nil}
ConcTexts == {StackText(<<40, 40, 40, 40>>), StackText(<<3000, 3000>>)}

InitConc ==
    /\ options \in ConcOptionLists
    /\ cfg = ApplyAll(NewConfig, options)
    /\ installed = TRUE
    /\ panicnil \in BOOLEAN
    /\ NoRequests

\* The inner handlers write body bytes only.
NextConc ==
    \E r \in Requests :
        \/ Arrive(r)
        \/ InnerWrite(r)
        \/ InnerReturn(r)
        \/ InnerPanic(r, ConcValues)
        \/ Deferred(r, ConcTexts)

SpecConc == InitConc /\ [][NextConc]_vars

----------------------------------------------------------------------------
(* Properties *)

Finished(r) == pc[r] \in {"returned", "propagated"}

\* The value the deferred function of request r got from recover().
RecoveredValue(r) == IF val[r] = Nil THEN PanicNilError ELSE val[r]

\* C1. Transparency: when the inner handler returned normally, the deferred
\* function ends the outer handler without calling the error handler and
\* leaves the response writer and the loggers as the inner handler left them.
C1_Transparency ==
    [][\A r \in Requests :
         (pc[r] = "deferred" /\ ~panicking[r] /\ pc'[r] # pc[r]) =>
            /\ pc'[r] = "returned"
            /\ calls'[r] = <<>>
            /\ w'[r] = w[r]
            /\ logs' = logs]_vars

C1_Witness ==
    \E r \in Requests :
        /\ pc[r] = "returned" /\ ~panicking[r]
        /\ w[r].body # <<>> /\ calls[r] = <<>>

\* C2. The error handler is called at most once per request and only after
\* a panic escaped the inner handler; every such panic, whatever its value,
\* is handed to the error handler exactly once, and the outer handler then
\* returns normally unless the error handler itself panicked.
C2_DispatchExactlyOnce ==
    \A r \in Requests :
        /\ Len(calls[r]) <= 1
        /\ calls[r] # <<>> => panicking[r]
        /\ (panicking[r] /\ Finished(r)) => Len(calls[r]) = 1
        /\ (panicking[r] /\ Finished(r) /\ cfg.ErrHandler # "PanickingErrorHandler")
              => pc[r] = "returned"

\* C3. The message handed to the error handler is "panic: " followed by the
\* string for a string value, "panic: " followed by the error's description
\* for an error value, and "unknown panic" for any other value.
C3_Message ==
    \A r \in Requests : \A k \in 1..Len(calls[r]) :
        LET v == RecoveredValue(r)
            msg == calls[r][k].msg
        IN /\ v.kind = "string" => msg = "panic: " \o v.s
           /\ v.kind = "error" => msg = "panic: " \o v.s
           /\ v.kind \notin {"string", "error"} => msg = "unknown panic"

C3_Witness ==
    \E r \in Requests :
        /\ calls[r] # <<>>
        /\ val[r] = [kind |-> "error", s |-> "EOF"]
        /\ calls[r][1].msg = "panic: EOF"

\* C4. With the default error handler, a request whose inner handler
\* panicked ends with the configured status, the configured Content-Type,
\* an empty body and exactly one log record on the configured logger.
C4_DefaultResponse ==
    \A r \in Requests :
        (panicking[r] /\ Finished(r) /\ cfg.ErrHandler = "DefaultErrorHandler") =>
            /\ w[r].status = cfg.ResponseStatus
            /\ w[r].sent = cfg.ContentType
            /\ w[r].body = <<>>
            /\ Len(logs[cfg.Logger]) = 1

\* C5. Over a whole request the status line is written at most once, no
\* header is set after it, and no body bytes are written before it.
C5_WriteDiscipline ==
    \A r \in Requests :
        LET ev == w[r].events
        IN /\ Cardinality({j \in 1..Len(ev) : ev[j] = "WriteHeader"}) <= 1
           /\ \A j, k \in 1..Len(ev) :
                 (j < k /\ ev[j] = "WriteHeader") => ev[k] # "Header.Set"
           /\ \A k \in 1..Len(ev) :
                 ev[k] = "Write" => \E j \in 1..(k - 1) : ev[j] = "WriteHeader"

\* C6. The stack size never falls below MinimumStackSize, and a StackSize
\* option with a value at or below MinimumStackSize leaves the whole
\* configuration as it was.
C6_StackSizeFloor ==
    /\ [](cfg.StackSize >= MinimumStackSize)
    /\ [][(Len(options') = Len(options) + 1
            /\ options'[Len(options')].name = "StackSize"
            /\ options'[Len(options')].int <= MinimumStackSize) => cfg' = cfg]_vars

C6_Witness ==
    /\ Len(options) = 2
    /\ options[1] = [name |-> "StackSize", str |-> "", int |-> 2 * MinimumStackSize]
    /\ options[2] = [name |-> "StackSize", str |-> "", int |-> MinimumStackSize]
    /\ cfg.StackSize = 2 * MinimumStackSize

\* The last option of a name that takes effect (0 when there is none).
LastEffective(name) ==
    LET idx == {k \in 1..Len(options) :
                   /\ options[k].name = name
                   /\ name = "StackSize" => options[k].int > MinimumStackSize}
    IN IF idx = {} THEN 0 ELSE CHOOSE k \in idx : \A j \in idx : j <= k

FieldOf(name) == IF name = "ErrorHandler" THEN "ErrHandler" ELSE name

ExpectedStr(name, default) ==
    IF LastEffective(name) = 0 THEN default ELSE options[LastEffective(name)].str

ExpectedInt(name, default) ==
    IF LastEffective(name) = 0 THEN default ELSE options[LastEffective(name)].int

\* C7. Options are applied in order to the default configuration: each
\* field holds the value of the last effective option for it, or its default
\* when there is none, and an option changes no field but its own.
C7_OptionOrder ==
    /\ [](/\ cfg.ContentType = ExpectedStr("ContentType", "application/json")
           /\ cfg.ResponseStatus = ExpectedInt("ResponseStatus", 500)
           /\ cfg.StackSize = ExpectedInt("StackSize", 4096)
           /\ cfg.Logger = ExpectedStr("Logger", "stderr")
           /\ cfg.ErrHandler = ExpectedStr("ErrorHandler", "DefaultErrorHandler"))
    /\ [][Len(options') = Len(options) + 1 =>
            \A f \in DOMAIN cfg :
                f # FieldOf(options'[Len(options')].name) => cfg'[f] = cfg[f]]_vars

C7_Witness ==
    /\ Len(options) = 3
    /\ options[1] = [name |-> "ContentType", str |-> "application/xml", int |-> 0]
    /\ options[2] = [name |-> "ResponseStatus", str |-> "", int |-> 503]
    /\ options[3] = [name |-> "ContentType", str |-> "text/plain", int |-> 0]
    /\ cfg.ContentType = "text/plain"
    /\ cfg.ResponseStatus = 503

\* C8. A panic of the error handler is not recovered: it leaves the outer
\* handler, and the error handler is not called again for that request.
C8_DispatchPanicPropagates ==
    \A r \in Requests :
        (calls[r] # <<>> /\ cfg.ErrHandler = "PanickingErrorHandler") =>
            /\ pc[r] = "propagated"
            /\ Len(calls[r]) = 1

C8_Witness ==
    \E r \in Requests : pc[r] = "propagated" /\ Len(calls[r]) = 1

\* C9. Under concurrent requests with the default error handler the shared
\* configuration keeps the value option application gave it, and each call
\* of the error handler carries the message, trace and response writer of
\* its own request, and touches no other request's writer.
C9_ConfigReadOnly ==
    /\ [](cfg = ApplyAll(NewConfig, options))
    /\ [][cfg' = cfg]_vars
    /\ [](\A r \in Requests : \A k \in 1..Len(calls[r]) :
            /\ calls[r][k].w = r
            /\ calls[r][k].msg = "panic: " \o RecoveredValue(r).s
            /\ calls[r][k].stack = Trace(raw[r], cfg.StackSize))
    /\ [][\A r \in Requests :
            calls'[r] # calls[r] =>
                \A q \in Requests \ {r} : w'[q] = w[q] /\ calls'[q] = calls[q]]_vars

C9_Witness ==
    /\ calls[1] # <<>> /\ calls[2] # <<>>
    /\ calls[1][1].msg # calls[2][1].msg
    /\ raw[1] # raw[2]
    /\ w[1].body # <<>> /\ w[2].body = <<>>

\* C10. The trace handed to the error handler is the first StackSize bytes
\* of the stack text split at newlines, without its first 3 lines when there
\* are more than 3 and whole otherwise, in the original order.
C10_TraceTrimming ==
    \A r \in Requests : \A k \in 1..Len(calls[r]) :
        LET buf   == Stack(raw[r], cfg.StackSize)
            lines == Split(buf)
            trace == calls[r][k].stack
        IN /\ Bytes(buf) <= cfg.StackSize
           /\ Bytes(buf) = Bytes(raw[r]) \/ Bytes(buf) = cfg.StackSize
           /\ Join(lines) = buf
           /\ \A i \in 1..Len(lines) : \A j \in 1..Len(lines[i]) : lines[i][j].t # "nl"
           /\ Len(lines) > 3 =>
                 /\ Len(trace) = Len(lines) - 3
                 /\ \A i \in 1..Len(trace) : trace[i] = lines[i + 3]
           /\ Len(lines) <= 3 => trace = lines

C10_Witness ==
    \E r \in Requests :
        /\ calls[r] # <<>>
        /\ Bytes(raw[r]) > cfg.StackSize
        /\ Len(Split(Stack(raw[r], cfg.StackSize))) > 3
        /\ Len(calls[r][1].stack) = 1

====
